---- MODULE Spec2Model ----
(***************************************************************************)
(* Model of bitrw (src/lib.rs): BitReader and BitWriter over a byte        *)
(* source / sink.                                                          *)
(*                                                                         *)
(* A u64 is modelled as the set of its one-bit positions (0 = least        *)
(* significant), so that all 64 bits are kept; a u8 is a number 0..255.    *)
(* The byte source is an in-memory cursor (contents src, position pos),    *)
(* the byte sink a growable vector of bytes.                               *)
(***************************************************************************)
EXTENDS Integers, Sequences, FiniteSets, TLC

VARIABLES
    overflow_checks,  \* build profile: TRUE = overflow checks on (debug)
    src, pos,         \* BitReader.inner: bytes 1..Len(src), next byte is pos+1
    r_buffer,         \* BitReader.buffer[0]
    r_unused,         \* BitReader.unused
    sink,             \* BitWriter.inner: the bytes delivered so far
    w_buffer,         \* BitWriter.buffer (u64)
    w_unused,         \* BitWriter.unused
    last,             \* the last call: op, arg, val, status, ret (u64), cnt (usize)
    budget,           \* number of calls still to be made
    origin,           \* history: how the reader's cursor was last established
    consumed,         \* history: bits returned by successful reads since origin
    reads,            \* history: read calls since origin
    failed,           \* history: read calls since origin that did not return Ok
    ref,              \* history: the bits passed to write_bits, padded at flushes
    sinceFlush,       \* history: bits passed to write_bits since new / last flush
    log,              \* round trip: the (nbits, value) pairs written
    ri,               \* round trip: number of pairs read back
    phase             \* round trip: "write", "flushed", "read"

vars == <<overflow_checks, src, pos, r_buffer, r_unused, sink, w_buffer,
          w_unused, last, budget, origin, consumed, reads, failed, ref,
          sinceFlush,
          log, ri, phase>>

readerVars == <<src, pos, r_buffer, r_unused, origin, consumed, reads, failed>>
writerVars == <<sink, w_buffer, w_unused, ref, sinceFlush>>
tripVars   == <<log, ri, phase>>

----------------------------------------------------------------------------
(* Bounds *)

MaxBytes == 9        \* longest source of SpecReader
MaxSeekBytes == 2    \* longest source of SpecSeek
MaxAnyBytes == 1     \* longest source of Spec
MaxReaderCalls == 4  \* calls in a run of SpecReader
MaxSeekCalls == 3    \* calls in a run of SpecSeek
MaxLeakCalls == 4    \* calls in a run of SpecLeak
MaxWriterCalls == 3  \* calls in a run of SpecWriter
MaxCalls == 2        \* calls in a run of Spec
MaxPairs == 2        \* longest sequence written by SpecTrip

----------------------------------------------------------------------------
(* 64-bit words as sets of bit positions *)

U64Bits == 64

Pow2(n) == 2 ^ n

\* the u64 with the value n, for 0 <= n < 2^31
ToBits(n) == {i \in 0..30 : (n \div Pow2(i)) % 2 = 1}

\* value as u8
AsU8(x) ==
    LET b(i) == IF i \in x THEN Pow2(i) ELSE 0
    IN  b(0) + b(1) + b(2) + b(3) + b(4) + b(5) + b(6) + b(7)

\* byte as u64
AsU64(b) == {i \in 0..7 : (b \div Pow2(i)) % 2 = 1}

\* x << s and x >> s for 0 <= s < 64
Shl(x, s) == {i + s : i \in {j \in x : j + s < U64Bits}}
Shr(x, s) == {i - s : i \in {j \in x : j >= s}}

\* a shift by s overflows when s >= 64: a panic with overflow checks on,
\* a shift by s mod 64 with them off
ShiftOverflows(s) == s >= U64Bits
WrapShift(s) == s % U64Bits

MASKS == << ToBits(0), ToBits(1), ToBits(3), ToBits(7),
            ToBits(15), ToBits(31), ToBits(63), ToBits(127) >>

\* MASKS[i], zero-based as in the source
Mask(i) == MASKS[i + 1]

\* (v as i64) as u64 for a small negative or non-negative v: two's complement
I64AsU64(v) ==
    IF v >= 0 THEN ToBits(v) ELSE (0..(U64Bits - 1)) \ ToBits(-v - 1)

\* the carry into bit i of a + b: some lower bit generates a carry and every
\* bit between propagates it
CarryIn(a, b, i) ==
    \E j \in {g \in a \cap b : g < i} :
        \A m \in (j + 1)..(i - 1) : m \in a \cup b

AddOverflows(a, b) == CarryIn(a, b, U64Bits)

WrappingAdd(a, b) ==
    {i \in 0..(U64Bits - 1) :
        ((i \in a) # (i \in b)) # CarryIn(a, b, i)}

\* Rust's / and % on i64 truncate towards zero
RustDiv(a, b) == IF a >= 0 THEN a \div b ELSE -((-a) \div b)
RustRem(a, b) == a - b * RustDiv(a, b)

----------------------------------------------------------------------------
(* The byte source: an in-memory cursor over src *)

\* read_exact of one byte: the byte and the new position, or end of file
SourceHasByte(p) == p < Len(src)
SourceByte(p) == src[p + 1]

\* bit t (0 = first) of the source read as one MSB-first bit sequence
StreamBit(bytes, t) == (bytes[(t \div 8) + 1] \div Pow2(7 - (t % 8))) % 2

\* the n bits from bit t on, the earliest as the most significant of n
RefBits(bytes, t, n) == {n - 1 - j : j \in {i \in 0..(n - 1) : StreamBit(bytes, t + i) = 1}}

----------------------------------------------------------------------------
(* BitReader *)

Outcome(st, ret, buf, un, p) ==
    [status |-> st, ret |-> ret, buffer |-> buf, unused |-> un, pos |-> p]

ReadBitsAssert(nbits) == nbits <= 64

\* mutant: a byte is fetched as soon as the cache cannot exceed the request
ReadMore_Eager(rbits, un) == rbits >= un

\* while rbits > self.unused
ReadMore(rbits, un) == rbits > un

\* ret |= (self.buffer[0] as u64) << (rbits - self.unused)
ReadHead(ret, rbits, buf, un) == ret \cup Shl(AsU64(buf), WrapShift(rbits - un))

\* ret |= (self.buffer[0] as u64) >> (self.unused - rbits)
ReadTail(ret, rbits, buf, un) == ret \cup Shr(AsU64(buf), un - rbits)

\* mutant: the consumed bits are left in the cached byte
ReadKeep_Unmasked(rbits, buf, un) == buf

\* self.buffer[0] &= MASKS[(self.unused - rbits) as usize] as u8
ReadKeep(rbits, buf, un) == AsU8(AsU64(buf) \cap Mask(un - rbits))

\* mutant: the cached bits are taken out of the cache before the fetch, so a
\* fetch that fails has lost them
RECURSIVE ReadLoop_TakesFirst(_, _, _, _, _)
ReadLoop_TakesFirst(ret, rbits, buf, un, p) ==
    IF ReadMore(rbits, un)
    THEN IF ShiftOverflows(rbits - un) /\ overflow_checks
         THEN Outcome("panic", {}, buf, un, p)
         ELSE IF SourceHasByte(p)
              THEN ReadLoop_TakesFirst(ReadHead(ret, rbits, buf, un), rbits - un,
                                       SourceByte(p), 8, p + 1)
              ELSE Outcome("eof", {}, 0, 0, p)
    ELSE IF rbits > 0
         THEN Outcome("ok", ReadTail(ret, rbits, buf, un),
                      ReadKeep(rbits, buf, un), un - rbits, p)
         ELSE Outcome("ok", ret, buf, un, p)

RECURSIVE ReadLoop(_, _, _, _, _)
ReadLoop(ret, rbits, buf, un, p) ==
    IF ReadMore(rbits, un)
    THEN IF ShiftOverflows(rbits - un) /\ overflow_checks
         THEN Outcome("panic", {}, buf, un, p)
         ELSE IF SourceHasByte(p)
              THEN ReadLoop(ReadHead(ret, rbits, buf, un), rbits - un,
                            SourceByte(p), 8, p + 1)
              ELSE Outcome("eof", {}, buf, un, p)
    ELSE IF rbits > 0
         THEN Outcome("ok", ReadTail(ret, rbits, buf, un),
                      ReadKeep(rbits, buf, un), un - rbits, p)
         ELSE Outcome("ok", ret, buf, un, p)

read_bits(nbits, buf, un, p) ==
    IF ReadBitsAssert(nbits)
    THEN ReadLoop({}, nbits, buf, un, p)
    ELSE Outcome("panic", {}, buf, un, p)

\* the amounts of the shifts read_bits executes, or attempts, in its loop
\* (rbits - self.unused) and after it (self.unused - rbits)
RECURSIVE ReadShifts(_, _, _)
ReadShifts(rbits, un, p) ==
    IF ReadMore(rbits, un)
    THEN {rbits - un} \cup
         (IF (ShiftOverflows(rbits - un) /\ overflow_checks) \/ ~SourceHasByte(p)
          THEN {}
          ELSE ReadShifts(rbits - un, 8, p + 1))
    ELSE IF rbits > 0 THEN {un - rbits} ELSE {}

\* the indexes into MASKS read_bits uses: (self.unused - rbits) after the loop
RECURSIVE ReadMaskIndexes(_, _, _)
ReadMaskIndexes(rbits, un, p) ==
    IF ReadMore(rbits, un)
    THEN IF (ShiftOverflows(rbits - un) /\ overflow_checks) \/ ~SourceHasByte(p)
         THEN {}
         ELSE ReadMaskIndexes(rbits - un, 8, p + 1)
    ELSE IF rbits > 0 THEN {un - rbits} ELSE {}

read_bit(buf, un, p) ==
    LET r == read_bits(1, buf, un, p)
    IN  IF r.status = "ok" THEN [r EXCEPT !.ret = AsU64(AsU8(r.ret))] ELSE r

\* mutant: the leading p % 8 bits are not discarded
seek_start_NoDiscard(p) == Outcome("ok", ToBits(p), 0, 0, p \div 8)

\* seek(SeekFrom::Start(p)): the source is at p / 8 <= Len(src)
seek_start(p) ==
    LET r == read_bits(p % 8, 0, 0, p \div 8)
    IN  IF r.status = "ok" THEN [r EXCEPT !.ret = ToBits(p)] ELSE r

\* mutant: an offset of zero is taken for a supported one
SeekEndSupported_Zero(off) == off <= 0

SeekEndSupported(off) == off < 0

SeekEndBypos(off) ==
    LET bypos == RustDiv(off, 8)
        bipos == 8 - RustRem(off, 8)
    IN  IF bipos > 0 THEN bypos - 1 ELSE bypos

SeekEndBipos(off) == 8 - RustRem(off, 8)

\* Ok(ipos + (pos % 8) as u64)
SeekEndReturn(ipos, off, r) ==
    LET a == ToBits(ipos)
        b == I64AsU64(RustRem(off, 8))
    IN  IF AddOverflows(a, b) /\ overflow_checks
        THEN [r EXCEPT !.status = "panic", !.ret = {}]
        ELSE [r EXCEPT !.ret = WrappingAdd(a, b)]

\* seek(SeekFrom::End(off))
seek_end(off, p) ==
    IF SeekEndSupported(off)
    THEN LET ipos == Len(src) + SeekEndBypos(off)
         IN  IF ipos < 0
             THEN Outcome("invalid", {}, 0, 0, p)
             ELSE LET r == read_bits(SeekEndBipos(off), 0, 0, ipos)
                  IN  IF r.status = "ok" THEN SeekEndReturn(ipos, off, r) ELSE r
    ELSE Outcome("unsupported", {}, 0, 0, p)

\* mutant: the cache is reset before the offset is rejected
seek_current_Resets(d, buf, un, p) == Outcome("unsupported", {}, 0, 0, p)

\* seek(SeekFrom::Current(_))
seek_current(d, buf, un, p) == Outcome("unsupported", {}, buf, un, p)

----------------------------------------------------------------------------
(* BitWriter *)

Written(st, cnt, buf, un, out) ==
    [status |-> st, cnt |-> cnt, buffer |-> buf, unused |-> un, sink |-> out]

\* mutant: the width is not asserted
WriteBitsAssert_Off(nbits) == TRUE

WriteBitsAssert(nbits) == nbits <= 64
WriteBitAssert(bit) == bit <= 1

\* mutant: a write that exactly completes the byte does not emit it
WriteFills_Strict(nbits, un) == nbits > un /\ un < 8

\* can we fill up a partial byte?
WriteFills(nbits, un) == nbits >= un /\ un < 8

\* self.buffer <<= self.unused;
\* self.buffer |= (value >> excess_bits) & MASKS[self.unused as usize]
WriteFill(value, buf, un, excess) ==
    Shl(buf, un) \cup (Shr(value, excess) \cap Mask(un))

\* (value >> nbits_remaining) as u8
WriteByte(value, remaining) == AsU8(Shr(value, remaining))

\* while nbits_remaining >= 8
RECURSIVE WriteLoop(_, _, _)
WriteLoop(value, remaining, out) ==
    IF remaining >= 8
    THEN WriteLoop(value, remaining - 8, Append(out, WriteByte(value, remaining - 8)))
    ELSE out

\* mutant: the accumulator is not shifted before the new bits are put in
WriteRest_Unshifted(value, buf, remaining) == buf \cup (value \cap Mask(remaining))

\* mutant: the value is put into the accumulator without the mask
WriteRest_Unmasked(value, buf, remaining) == Shl(buf, remaining) \cup value

\* self.buffer <<= nbits_remaining;
\* self.buffer |= value & MASKS[nbits_remaining as usize]
WriteRest(value, buf, remaining) ==
    Shl(buf, remaining) \cup (value \cap Mask(remaining))

write_bits(nbits, value, buf, un, out) ==
    IF ~WriteBitsAssert(nbits)
    THEN Written("panic", 0, buf, un, out)
    ELSE LET fills == WriteFills(nbits, un)
             excess == nbits - un
             out1 == IF fills
                     THEN Append(out, AsU8(WriteFill(value, buf, un, excess)))
                     ELSE out
             rem1 == IF fills THEN excess ELSE nbits
             un1 == IF fills THEN 8 ELSE un
             buf1 == IF fills THEN {} ELSE buf
             out2 == WriteLoop(value, rem1, out1)
             rem2 == rem1 % 8
         IN  IF rem2 > 0
             THEN Written("ok", nbits, WriteRest(value, buf1, rem2), un1 - rem2, out2)
             ELSE Written("ok", nbits, buf1, un1, out2)

\* the amounts of the shifts write_bits executes: self.unused and excess_bits
\* when it fills the partial byte, nbits_remaining for every whole byte and
\* for the rest
WriteShifts(nbits, un) ==
    LET fills == WriteFills(nbits, un)
        excess == nbits - un
        rem1 == IF fills THEN excess ELSE nbits
        rem2 == rem1 % 8
    IN  (IF fills THEN {un, excess} ELSE {})
            \cup {rem1 - 8 * k : k \in 1..(rem1 \div 8)}
            \cup (IF rem2 > 0 THEN {rem2} ELSE {})

\* the indexes into MASKS write_bits uses: self.unused when it fills the
\* partial byte, nbits_remaining for the rest
WriteMaskIndexes(nbits, un) ==
    LET fills == WriteFills(nbits, un)
        rem1 == IF fills THEN nbits - un ELSE nbits
        rem2 == rem1 % 8
    IN  (IF fills THEN {un} ELSE {}) \cup (IF rem2 > 0 THEN {rem2} ELSE {})

write_bit(bit, buf, un, out) ==
    IF ~WriteBitAssert(bit)
    THEN Written("panic", 0, buf, un, out)
    ELSE [write_bits(1, ToBits(bit), buf, un, out) EXCEPT !.cnt = 0]

\* mutant: the pending bits are counted instead of the padding bits
FlushCount_Pending(un) == 8 - un

\* the number of padding bits flush_bits reports
FlushCount(un) == un

\* mutant: the padding is put above the pending bits
FlushByte_Unshifted(buf, un) == AsU8(buf)

\* (self.buffer << self.unused) as u8
FlushByte(buf, un) == AsU8(Shl(buf, un))

flush_bits(buf, un, out) ==
    IF un # 8
    THEN Written("ok", FlushCount(un), buf, 8, Append(out, FlushByte(buf, un)))
    ELSE Written("ok", 0, buf, un, out)

\* the amount of the shift flush_bits executes: self.unused
FlushShifts(un) == IF un # 8 THEN {un} ELSE {}

\* flush_bits, then the sink's own flush, which a vector of bytes ignores
flush(buf, un, out) == flush_bits(buf, un, out)

\* into_inner(self) -> W: the sink as it is, nothing flushed
into_inner(out) == out

----------------------------------------------------------------------------
(* References the writer's output is compared with *)

\* the low n bits of value, most significant first
BitsOf(n, value) == [j \in 1..n |-> IF (n - j) \in value THEN 1 ELSE 0]

\* bits, followed by zero bits up to the next byte boundary
Padded(bits) == bits \o [j \in 1..((8 - (Len(bits) % 8)) % 8) |-> 0]

\* the whole bytes of a bit sequence, MSB first
Pack(bits) ==
    [i \in 1..(Len(bits) \div 8) |->
        LET b(j) == bits[8 * (i - 1) + 1 + j] * Pow2(7 - j)
        IN  b(0) + b(1) + b(2) + b(3) + b(4) + b(5) + b(6) + b(7)]

----------------------------------------------------------------------------
(* Inputs *)

\* source contents: two byte patterns of every length up to maxlen
PatternByte(seed, i) == (seed + 89 * (i - 1)) % 256
Seeds == {165, 255}
Sources(maxlen) ==
    {[i \in 1..n |-> PatternByte(seed, i)] : n \in 0..maxlen, seed \in Seeds}

ReadSizes == {0, 1, 3, 8, 12, 64, 65}
WriteSizes == {0, 1, 4, 8, 12, 64, 65}
BitInputs == {0, 1, 2}

\* 0xAAAAAAAAAAAAAAAA, 0x5555555555555555, 0xFFFFFFFFFFFFFABC
Values ==
    { {i \in 0..63 : i % 2 = 1},
      {i \in 0..63 : i % 2 = 0},
      (12..63) \cup ToBits(2748) }

LowBits(n, value) == value \cap (0..(n - 1))

\* every width the round trip allows
TripSizes == 0..64

StartOffsets == 0..(8 * Len(src) + 7)
EndOffsets == (-(8 * Len(src) + 1))..1
CurrentOffsets == {-1, 0, 1}

----------------------------------------------------------------------------
(* Initial states *)

NoCall == [op |-> "new", arg |-> 0, val |-> {}, status |-> "ok", ret |-> {}, cnt |-> 0]

NewReader(bytes) ==
    /\ src = bytes
    /\ pos = 0
    /\ r_buffer = 0
    /\ r_unused = 0
    /\ origin = [kind |-> "new", arg |-> 0, ok |-> TRUE]
    /\ consumed = 0
    /\ reads = 0
    /\ failed = 0

\* mutant: a new writer starts with no free bit, as a new reader starts
\* with no unused bit
NewWriter_Zero ==
    /\ sink = << >>
    /\ w_buffer = {}
    /\ w_unused = 0
    /\ ref = << >>
    /\ sinceFlush = 0

NewWriter ==
    /\ sink = << >>
    /\ w_buffer = {}
    /\ w_unused = 8
    /\ ref = << >>
    /\ sinceFlush = 0

NoTrip(ph) ==
    /\ log = << >>
    /\ ri = 0
    /\ phase = ph

InitWith(sources, calls, ph) ==
    /\ overflow_checks \in BOOLEAN
    /\ \E bytes \in sources : NewReader(bytes)
    /\ NewWriter
    /\ NoTrip(ph)
    /\ last = NoCall
    /\ budget = calls

----------------------------------------------------------------------------
(* Calls *)

CanCall == budget > 0 /\ last.status # "panic"

Called(op, arg, val, status, ret, cnt) ==
    /\ last' = [op |-> op, arg |-> arg, val |-> val, status |-> status,
                ret |-> ret, cnt |-> cnt]
    /\ budget' = budget - 1

ReaderBecomes(r) ==
    /\ r_buffer' = r.buffer
    /\ r_unused' = r.unused
    /\ pos' = r.pos

WriterBecomes(w) ==
    /\ w_buffer' = w.buffer
    /\ w_unused' = w.unused
    /\ sink' = w.sink

ReadBits ==
    /\ CanCall
    /\ \E n \in ReadSizes :
           \E r \in {read_bits(n, r_buffer, r_unused, pos)} :
               /\ ReaderBecomes(r)
               /\ Called("read_bits", n, {}, r.status, r.ret, 0)
               /\ consumed' = IF r.status = "ok" THEN consumed + n ELSE consumed
               /\ reads' = reads + 1
               /\ failed' = IF r.status = "ok" THEN failed ELSE failed + 1
               /\ UNCHANGED <<overflow_checks, src, origin, writerVars, tripVars>>

ReadBit ==
    /\ CanCall
    /\ \E r \in {read_bit(r_buffer, r_unused, pos)} :
           /\ ReaderBecomes(r)
           /\ Called("read_bit", 1, {}, r.status, r.ret, 0)
           /\ consumed' = IF r.status = "ok" THEN consumed + 1 ELSE consumed
           /\ reads' = reads + 1
           /\ failed' = IF r.status = "ok" THEN failed ELSE failed + 1
           /\ UNCHANGED <<overflow_checks, src, origin, writerVars, tripVars>>

\* mutant: reset leaves the cached byte and its count as they are
Reset_KeepsCache ==
    /\ CanCall
    /\ Called("reset", 0, {}, "ok", {}, 0)
    /\ origin' = [kind |-> "reset", arg |-> pos, ok |-> TRUE]
    /\ consumed' = 0
    /\ reads' = 0
    /\ failed' = 0
    /\ UNCHANGED <<overflow_checks, src, pos, r_buffer, r_unused, writerVars, tripVars>>

Reset ==
    /\ CanCall
    /\ r_buffer' = 0
    /\ r_unused' = 0
    /\ Called("reset", 0, {}, "ok", {}, 0)
    /\ origin' = [kind |-> "reset", arg |-> pos, ok |-> TRUE]
    /\ consumed' = 0
    /\ reads' = 0
    /\ failed' = 0
    /\ UNCHANGED <<overflow_checks, src, pos, writerVars, tripVars>>

SeekStart ==
    /\ CanCall
    /\ \E p \in StartOffsets :
           \E r \in {seek_start(p)} :
               /\ ReaderBecomes(r)
               /\ Called("seek_start", p, {}, r.status, r.ret, 0)
               /\ origin' = [kind |-> "start", arg |-> p, ok |-> r.status = "ok"]
               /\ consumed' = 0
               /\ reads' = 0
               /\ failed' = 0
               /\ UNCHANGED <<overflow_checks, src, writerVars, tripVars>>

SeekEnd ==
    /\ CanCall
    /\ \E off \in EndOffsets :
           \E r \in {seek_end(off, pos)} :
               /\ ReaderBecomes(r)
               /\ Called("seek_end", off, {}, r.status, r.ret, 0)
               /\ origin' = [kind |-> "end", arg |-> off, ok |-> r.status = "ok"]
               /\ consumed' = 0
               /\ reads' = 0
               /\ failed' = 0
               /\ UNCHANGED <<overflow_checks, src, writerVars, tripVars>>

SeekCurrent ==
    /\ CanCall
    /\ \E d \in CurrentOffsets :
           \E r \in {seek_current(d, r_buffer, r_unused, pos)} :
               /\ ReaderBecomes(r)
               /\ Called("seek_current", d, {}, r.status, r.ret, 0)
               /\ UNCHANGED <<overflow_checks, src, origin, consumed, reads, failed,
                              writerVars, tripVars>>

WriteBits ==
    /\ CanCall
    /\ \E n \in WriteSizes, v \in Values :
           \E w \in {write_bits(n, v, w_buffer, w_unused, sink)} :
               /\ WriterBecomes(w)
               /\ Called("write_bits", n, v, w.status, {}, w.cnt)
               /\ ref' = IF w.status = "ok" THEN ref \o BitsOf(n, v) ELSE ref
               /\ sinceFlush' = IF w.status = "ok" THEN sinceFlush + n ELSE sinceFlush
               /\ UNCHANGED <<overflow_checks, readerVars, tripVars>>

WriteBit ==
    /\ CanCall
    /\ \E b \in BitInputs :
           \E w \in {write_bit(b, w_buffer, w_unused, sink)} :
               /\ WriterBecomes(w)
               /\ Called("write_bit", b, {}, w.status, {}, w.cnt)
               /\ ref' = IF w.status = "ok" THEN Append(ref, b) ELSE ref
               /\ sinceFlush' = IF w.status = "ok" THEN sinceFlush + 1 ELSE sinceFlush
               /\ UNCHANGED <<overflow_checks, readerVars, tripVars>>

FlushBits ==
    /\ CanCall
    /\ \E w \in {flush_bits(w_buffer, w_unused, sink)} :
           /\ WriterBecomes(w)
           /\ Called("flush_bits", sinceFlush, {}, w.status, {}, w.cnt)
           /\ ref' = Padded(ref)
           /\ sinceFlush' = 0
           /\ UNCHANGED <<overflow_checks, readerVars, tripVars>>

Flush ==
    /\ CanCall
    /\ \E w \in {flush(w_buffer, w_unused, sink)} :
           /\ WriterBecomes(w)
           /\ Called("flush", sinceFlush, {}, w.status, {}, w.cnt)
           /\ ref' = Padded(ref)
           /\ sinceFlush' = 0
           /\ UNCHANGED <<overflow_checks, readerVars, tripVars>>

\* round trip: write_bits of a masked value on the fresh writer
TripWrite ==
    /\ CanCall
    /\ phase = "write"
    /\ Len(log) < MaxPairs
    /\ \E n \in TripSizes, v \in Values :
           \E w \in {write_bits(n, LowBits(n, v), w_buffer, w_unused, sink)} :
               /\ WriterBecomes(w)
               /\ Called("write_bits", n, LowBits(n, v), w.status, {}, w.cnt)
               /\ ref' = ref \o BitsOf(n, v)
               /\ sinceFlush' = sinceFlush + n
               /\ log' = Append(log, <<n, LowBits(n, v)>>)
               /\ UNCHANGED <<overflow_checks, readerVars, ri, phase>>

\* round trip: the one flush at the end
TripFlush ==
    /\ CanCall
    /\ phase = "write"
    /\ Len(log) >= 1
    /\ \E w \in {flush(w_buffer, w_unused, sink)} :
           /\ WriterBecomes(w)
           /\ Called("flush", sinceFlush, {}, w.status, {}, w.cnt)
           /\ ref' = Padded(ref)
           /\ sinceFlush' = 0
           /\ phase' = "flushed"
           /\ UNCHANGED <<overflow_checks, readerVars, log, ri>>

\* round trip: BitReader::new over the bytes of the sink
TripOpen ==
    /\ phase = "flushed"
    /\ src' = sink
    /\ pos' = 0
    /\ r_buffer' = 0
    /\ r_unused' = 0
    /\ origin' = [kind |-> "new", arg |-> 0, ok |-> TRUE]
    /\ consumed' = 0
    /\ reads' = 0
    /\ failed' = 0
    /\ phase' = "read"
    /\ UNCHANGED <<overflow_checks, writerVars, last, budget, log, ri>>

\* round trip: read_bits of the next width of the sequence
TripRead ==
    /\ CanCall
    /\ phase = "read"
    /\ ri < Len(log)
    /\ \E n \in {log[ri + 1][1]} :
           \E r \in {read_bits(n, r_buffer, r_unused, pos)} :
               /\ ReaderBecomes(r)
               /\ Called("read_bits", n, {}, r.status, r.ret, 0)
               /\ consumed' = IF r.status = "ok" THEN consumed + n ELSE consumed
               /\ reads' = reads + 1
               /\ failed' = IF r.status = "ok" THEN failed ELSE failed + 1
               /\ ri' = ri + 1
               /\ UNCHANGED <<overflow_checks, src, origin, writerVars, log, phase>>

----------------------------------------------------------------------------
(* Specifications *)

\* a reader over sources long enough for 64-bit reads
InitReader == InitWith(Sources(MaxBytes), MaxReaderCalls, "none")
NextReader == ReadBits \/ ReadBit \/ Reset
SpecReader == InitReader /\ [][NextReader]_vars

\* a seekable reader over short sources, every offset tried
InitSeek == InitWith(Sources(MaxSeekBytes), MaxSeekCalls, "none")
NextSeek == ReadBits \/ Reset \/ SeekStart \/ SeekEnd \/ SeekCurrent
SpecSeek == InitSeek /\ [][NextSeek]_vars

\* a writer over an empty vector
InitWriter == InitWith(Sources(0), MaxWriterCalls, "none")
NextWriter == WriteBits \/ WriteBit \/ FlushBits \/ Flush
SpecWriter == InitWriter /\ [][NextWriter]_vars

\* a reader and a writer, every operation
Init == InitWith(Sources(MaxAnyBytes), MaxCalls, "none")
Next ==
    \/ ReadBits \/ ReadBit \/ Reset \/ SeekStart \/ SeekEnd \/ SeekCurrent
    \/ WriteBits \/ WriteBit \/ FlushBits \/ Flush
Spec == Init /\ [][Next]_vars

\* a writer whose accumulator is flushed between writes of a few widths
LeakSizes == {1, 4, 12, 64}

LeakWrite == WriteBits /\ last'.arg \in LeakSizes

InitLeak == InitWith({<< >>}, MaxLeakCalls, "none")
NextLeak == LeakWrite \/ FlushBits
SpecLeak == InitLeak /\ [][NextLeak]_vars

\* a seekable reader, every reader operation
NextCursor ==
    ReadBits \/ ReadBit \/ Reset \/ SeekStart \/ SeekEnd \/ SeekCurrent
SpecCursor == InitSeek /\ [][NextCursor]_vars

\* a round trip: pairs written by a fresh writer, one flush, then the same
\* widths read by a fresh reader over the bytes the sink received
InitTrip == InitWith(Sources(0), 2 * MaxPairs + 1, "write")
NextTrip == TripWrite \/ TripFlush \/ TripOpen \/ TripRead
SpecTrip == InitTrip /\ [][NextTrip]_vars

----------------------------------------------------------------------------
(* Properties *)

LastIs(op) == last.op = op
LastOk == last.status = "ok"

SrcBits == 8 * Len(src)

\* bits the reads before the last call had returned since origin
ConsumedBefore == IF LastOk THEN consumed - last.arg ELSE consumed

\* the seek of origin and every read before the last call returned Ok
CleanBefore == origin.ok /\ failed = (IF LastOk THEN 0 ELSE 1)

\* the bit offset origin puts the cursor at
OriginBit ==
    CASE origin.kind = "new" -> 0
      [] origin.kind = "reset" -> 8 * origin.arg
      [] origin.kind = "start" -> origin.arg
      [] origin.kind = "end" -> SrcBits + origin.arg

\* C1: every pair written by a fresh writer and flushed once is returned, in
\* order, by read_bits of the same widths on a fresh reader over the bytes.
C1_RoundTrip ==
    (phase = "read" /\ ri > 0) => (LastOk /\ last.ret = log[ri][2])

\* C1 with overflow checks off: the round trip as the release build runs it
C1_RoundTripUnchecked ==
    (~overflow_checks /\ phase = "read" /\ ri > 0)
        => (LastOk /\ last.ret = log[ri][2])

\* C2: a successful read_bits(nbits) after successful reads of T bits returns
\* stream bits T .. T+nbits-1, the earliest the most significant of nbits,
\* and nothing above bit nbits-1.
C2_ReadMatchesStream ==
    (LastIs("read_bits") /\ LastOk /\ CleanBefore /\ origin.kind \in {"new", "reset"})
        => last.ret = RefBits(src, OriginBit + ConsumedBefore, last.arg)

C2_Witness ==
    /\ LastIs("read_bits") /\ LastOk /\ CleanBefore
    /\ origin.kind = "new"
    /\ last.arg = 64
    /\ ConsumedBefore = 3
    /\ last.ret # {}

\* C3: after a flush the sink holds exactly the MSB-first concatenation of
\* the low nbits of every value written, zero padded to whole bytes.
C3_WriterMatchesReference ==
    (last.op \in {"flush", "flush_bits"}) => sink = Pack(ref)

C3_Witness ==
    /\ LastIs("flush")
    /\ last.arg = 12
    /\ sink = <<171, 192>>

\* C4: seek(End(-k)) with 0 < k <= 8N succeeds; the read of exactly k bits
\* that follows succeeds and returns the last k bits of the stream; any
\* read of more bits after that fails with end of stream.
C4_SeekEndPositions ==
    (origin.kind = "end" /\ origin.arg < 0 /\ -origin.arg <= SrcBits) =>
        /\ LastIs("seek_end") => LastOk
        /\ (LastIs("read_bits") /\ reads = 1 /\ last.arg = -origin.arg)
               => (LastOk /\ last.ret = RefBits(src, OriginBit, last.arg))
        /\ (LastIs("read_bits") /\ reads = 2 /\ last.arg \in 1..64
                /\ ConsumedBefore = -origin.arg)
               => last.status = "eof"

\* C5: a successful seek(End(-k)) with 0 < k <= 8N returns 8N - k, and the
\* sum that computes it does not overflow.
C5_SeekEndReturnsOffset ==
    (LastIs("seek_end") /\ last.arg < 0 /\ -last.arg <= SrcBits) =>
        /\ last.status # "panic"
        /\ LastOk => last.ret = ToBits(SrcBits + last.arg)

\* C6: seek(Start(p)) with 0 <= p <= 8N succeeds from every reader state and
\* returns p; the reads of the remaining 8N - p bits that follow succeed and
\* return the bits of the stream from bit p on.
C6_SeekStartSuffix ==
    (origin.kind = "start" /\ origin.arg <= SrcBits) =>
        /\ LastIs("seek_start") => (LastOk /\ last.ret = ToBits(origin.arg))
        /\ (LastIs("read_bits") /\ CleanBefore
                /\ OriginBit + ConsumedBefore + last.arg <= SrcBits)
               => (LastOk /\ last.ret = RefBits(src, OriginBit + ConsumedBefore, last.arg))

C6_Witness ==
    /\ origin.kind = "start" /\ origin.arg = 4
    /\ LastIs("read_bits") /\ LastOk
    /\ last.arg = 12
    /\ SrcBits = 16
    /\ last.ret # {}

\* C7: flush_bits and flush return k with 0 <= k < 8, the bits written since
\* creation or the previous flush plus k are a multiple of 8, and the sink
\* has then received every bit written and every padding bit.
C7_FlushInvariant ==
    (last.op \in {"flush", "flush_bits"}) =>
        /\ LastOk
        /\ last.cnt \in 0..7
        /\ (last.arg + last.cnt) % 8 = 0
        /\ 8 * Len(sink) = Len(ref)

C7_Witness ==
    /\ LastIs("flush_bits")
    /\ last.arg = 13
    /\ last.cnt = 3

\* C8: read_bits(nbits) with nbits <= 64 fails with end of stream exactly
\* when nbits exceeds the cached bits plus 8 times the unread bytes, and
\* returns Ok otherwise.
C8_EofExactly ==
    [][(last'.op = "read_bits" /\ budget' < budget /\ last'.arg <= 64) =>
          /\ (last'.status = "eof") <=> (last'.arg > r_unused + 8 * (Len(src) - pos))
          /\ last'.status \in {"eof", "ok"}]_vars

\* C8 with overflow checks off
C8_EofExactlyUnchecked ==
    [][(~overflow_checks /\ last'.op = "read_bits" /\ budget' < budget
            /\ last'.arg <= 64) =>
          /\ (last'.status = "eof") <=> (last'.arg > r_unused + 8 * (Len(src) - pos))
          /\ last'.status \in {"eof", "ok"}]_vars

\* C9: seek(End(p)) with p >= 0 and seek(Current(d)) return an error in
\* every reader state.
C9_UnsupportedSeeksFail ==
    ((LastIs("seek_end") /\ last.arg >= 0) \/ LastIs("seek_current"))
        => last.status = "unsupported"

C9_Witness ==
    /\ LastIs("seek_end")
    /\ last.arg = 0
    /\ Len(src) = 2
    /\ last.status = "unsupported"

\* C10: read_bits(n) and write_bits(n, _) with n > 64 and write_bit(b) with
\* b > 1 panic, and leave the source, the sink and the reader's and writer's
\* fields as they were.
C10_ViolationsAbort ==
    [][(/\ budget' < budget
        /\ \/ last'.op \in {"read_bits", "write_bits"} /\ last'.arg > 64
           \/ last'.op = "write_bit" /\ last'.arg > 1) =>
          /\ last'.status = "panic"
          /\ UNCHANGED <<src, pos, r_buffer, r_unused, sink, w_buffer, w_unused>>]_vars

C10_Witness ==
    /\ LastIs("write_bits")
    /\ last.arg = 65
    /\ last.status = "panic"
    /\ w_unused < 8
    /\ Len(sink) > 0

\* the cached byte as the bits of the stream it holds: the unused bits that
\* end at the source's position
CachedStreamBits == RefBits(src, 8 * pos - r_unused, r_unused)

\* C11: 0 <= unused <= 8, the unread bits are the high-order unused bits of
\* the cached byte, its bits below 8 - unused are zero, and unused = 0
\* implies a cached byte of 0.
C11_ReaderInvariantHigh ==
    /\ r_unused \in 0..8
    /\ r_buffer % Pow2(8 - r_unused) = 0
    /\ AsU64(r_buffer) = Shl(CachedStreamBits, 8 - r_unused)
    /\ (r_unused = 0 => r_buffer = 0)

\* C11 as amended: 0 <= unused <= 8, the unread bits are the low-order
\* unused bits of the cached byte, its bits at unused and above are zero,
\* and unused = 0 implies a cached byte of 0.
C11_ReaderInvariantLow ==
    /\ r_unused \in 0..8
    /\ r_buffer < Pow2(r_unused)
    /\ AsU64(r_buffer) = CachedStreamBits
    /\ (r_unused = 0 => r_buffer = 0)

C11_Witness ==
    /\ LastIs("read_bits") /\ LastOk
    /\ last.arg = 3
    /\ r_unused = 5
    /\ r_buffer = 5
    /\ src[pos] = 165

\* bytes the reader has pulled from the source since new or reset
Fetched == pos - origin.arg

\* after new or reset and successful reads only, of consumed bits in total
C12_LazyState ==
    (origin.kind \in {"new", "reset"} /\ failed = 0)
        => /\ Fetched = (consumed + 7) \div 8
           /\ r_unused = (8 - (consumed % 8)) % 8

\* a step that is a call of read_bits(0)
C12_ZeroRead ==
    (last'.op = "read_bits" /\ last'.arg = 0 /\ budget' < budget)
        => /\ last'.status = "ok"
           /\ last'.ret = {}
           /\ UNCHANGED <<src, pos, r_buffer, r_unused>>

\* C12: after new or reset and successful reads of T bits in total the reader
\* has pulled exactly ceil(T/8) bytes and unused = (8 - T mod 8) mod 8;
\* read_bits(0) succeeds, reads nothing from the source and changes nothing,
\* even at the end of the stream.
C12_Laziness == []C12_LazyState /\ [][C12_ZeroRead]_vars

C12_Witness ==
    /\ LastIs("read_bits") /\ LastOk
    /\ last.arg = 0
    /\ origin.kind = "new" /\ failed = 0
    /\ consumed = 11
    /\ pos = 2 /\ Len(src) = 2
    /\ r_unused = 5

\* bytes the sink held at the last flush, or at new
SinkAtFlush == (Len(ref) - sinceFlush) \div 8

\* the bits the accumulator holds below its free bits, as a number's bits
Pending(buf, un) == buf \cap {i \in 0..63 : i < 8 - un}

\* C13: after new or a flush and successful writes of T bits in total,
\* exactly floor(T/8) bytes have been emitted since, free = 8 - (T mod 8),
\* the T mod 8 pending bits are in the accumulator and not in the sink, and
\* into_inner returns the sink without them.
C13_EmissionAccounting ==
    /\ Len(sink) = SinkAtFlush + (sinceFlush \div 8)
    /\ w_unused = 8 - (sinceFlush % 8)
    /\ w_unused \in 1..8
    /\ (w_unused = 8) = (sinceFlush % 8 = 0)
    /\ Pending(w_buffer, w_unused)
           = RefBits(Pack(Padded(ref)), Len(ref) - (sinceFlush % 8), sinceFlush % 8)
    /\ into_inner(sink) = Pack(ref)

C13_Witness ==
    /\ LastIs("write_bits") /\ LastOk
    /\ last.arg = 12
    /\ sinceFlush = 13
    /\ Len(into_inner(sink)) = 1
    /\ w_unused = 3
    /\ Pending(w_buffer, w_unused) # {}

\* a step that is a call of reset
C14_ResetStep ==
    (last'.op = "reset" /\ budget' < budget)
        => /\ r_buffer' = 0
           /\ r_unused' = 0
           /\ UNCHANGED <<src, pos>>

\* the first read after a reset, when it succeeds and asks for a bit or more
C14_ReadAfterReset ==
    (/\ origin.kind = "reset"
     /\ reads = 1
     /\ last.op \in {"read_bits", "read_bit"}
     /\ LastOk
     /\ last.arg > 0)
        => /\ last.ret = RefBits(src, 8 * origin.arg, last.arg)
           /\ pos = origin.arg + ((last.arg + 7) \div 8)

\* C14: reset sets the cached byte and unused to 0 and leaves the source's
\* position and contents alone; the next read of n > 0 bits returns the bits
\* from the most significant bit of the next unread source byte on, never
\* the bits that were cached.
C14_ResetDiscardsCache == [][C14_ResetStep]_vars /\ []C14_ReadAfterReset

\* read_bits(12) left four unread bits of the second byte, reset dropped
\* them, read_bits(3) returned the top of the third byte
C14_Witness ==
    /\ budget = MaxReaderCalls - 3
    /\ origin = [kind |-> "reset", arg |-> 2, ok |-> TRUE]
    /\ LastIs("read_bits") /\ LastOk
    /\ last.arg = 3
    /\ reads = 1
    /\ pos = 3
    /\ r_unused = 5

\* C15: write_bits(nbits, value) with nbits <= 64 returns nbits and leaves the
\* sink, the accumulator and free as write_bits(nbits, value mod 2^nbits)
\* from the same state would; write_bits(0, value) emits and changes nothing.
C15_OnlyLowBits ==
    [][(last'.op = "write_bits" /\ budget' < budget /\ WriteBitsAssert(last'.arg))
        => \E w \in {write_bits(last'.arg, LowBits(last'.arg, last'.val),
                                  w_buffer, w_unused, sink)} :
               /\ last'.status = "ok"
               /\ last'.cnt = last'.arg
               /\ sink' = w.sink
               /\ w_buffer' = w.buffer
               /\ w_unused' = w.unused
               /\ (last'.arg = 0 => UNCHANGED <<sink, w_buffer, w_unused>>)]_vars

C15_Witness ==
    /\ LastIs("write_bits") /\ LastOk
    /\ last.arg = 12
    /\ last.val # LowBits(last.arg, last.val)
    /\ sinceFlush = 16
    /\ Len(sink) = 2

\* the shift amounts of the call a step makes, taken in the state it is made
ShiftsOfCall ==
    CASE last'.op = "read_bits" /\ ReadBitsAssert(last'.arg)
             -> ReadShifts(last'.arg, r_unused, pos)
      [] last'.op = "read_bit" -> ReadShifts(1, r_unused, pos)
      [] last'.op = "write_bits" /\ WriteBitsAssert(last'.arg)
             -> WriteShifts(last'.arg, w_unused)
      [] last'.op = "write_bit" /\ WriteBitAssert(last'.arg)
             -> WriteShifts(1, w_unused)
      [] last'.op \in {"flush_bits", "flush"} -> FlushShifts(w_unused)
      [] OTHER -> {}

\* C16: every shift read_bits, write_bits and flush_bits execute on a 64-bit
\* operand, for nbits in 0..=64 and from every reachable state, has an amount
\* strictly less than 64.
C16_NoOverflowingShift ==
    [][budget' < budget => \A s \in ShiftsOfCall : s \in 0..63]_vars

\* the writer a fresh BitWriter would be after the calls made since the last
\* flush: the same free count, the pending bits and nothing else in the
\* accumulator, and a sink of its own
Fresh(buf, un) == [buffer |-> Pending(buf, un), unused |-> un, sink |-> << >>]

\* what the call of a writer step does to the writer w
WriterCall(w) ==
    CASE last'.op = "write_bits" -> write_bits(last'.arg, last'.val, w.buffer, w.unused, w.sink)
      [] last'.op = "write_bit" -> write_bit(last'.arg, w.buffer, w.unused, w.sink)
      [] last'.op = "flush_bits" -> flush_bits(w.buffer, w.unused, w.sink)
      [] last'.op = "flush" -> flush(w.buffer, w.unused, w.sink)

\* C17: whatever flush_bits left in the accumulator, every later call emits
\* the bytes a fresh BitWriter given the calls since that flush would emit,
\* returns what it would return and keeps the same pending bits and free
\* count, so the bytes after a flush are those of a fresh writer.
C17_NoLeakAfterFlush ==
    [][(budget' < budget /\ last'.op \in {"write_bits", "write_bit", "flush_bits", "flush"})
        => \E w \in {WriterCall(Fresh(w_buffer, w_unused))} :
               /\ sink' = sink \o w.sink
               /\ w_unused' = w.unused
               /\ Pending(w_buffer', w_unused') = Pending(w.buffer, w.unused)
               /\ last'.status = w.status
               /\ last'.cnt = w.cnt]_vars

\* writes, flush_bits, a write and the final flush_bits, with bits of the
\* earlier writes still in the accumulator above the pending ones
C17_Witness ==
    /\ LastIs("flush_bits")
    /\ budget = MaxLeakCalls - 4
    /\ last.arg \in 1..7
    /\ last.cnt = 8 - last.arg
    /\ Len(ref) = 16
    /\ Len(sink) = 2
    /\ sink[1] # 0
    /\ sink[2] = 0
    /\ w_buffer # {}

\* a step that is a seek the reader rejects as unsupported
RejectedSeek ==
    /\ budget' < budget
    /\ last'.op \in {"seek_end", "seek_current"}
    /\ last'.status = "unsupported"

\* C18: a seek(End(p)) with p >= 0 or seek(Current(d)) that returns the
\* unsupported-operation error leaves the cached byte, the unused count and
\* the source's position as they were before the call.
C18_RejectedSeekChangesNothing ==
    [][RejectedSeek => UNCHANGED <<r_buffer, r_unused, pos>>]_vars

\* the first read after a rejected seek(End(p)), when it succeeds and asks
\* for a bit or more, starts at the byte the source is at
C18_ReadAfterRejectedEnd ==
    (/\ origin.kind = "end" /\ origin.arg >= 0
     /\ reads = 1
     /\ LastIs("read_bits") /\ LastOk
     /\ last.arg > 0)
        => last.ret = RefBits(src, 8 * (pos - ((last.arg + 7) \div 8)), last.arg)

\* C18 as amended: a rejected seek never moves the source; seek(Current(d))
\* leaves the cached byte and the unused count as they were; seek(End(p))
\* with p >= 0 has reset them to 0, so the reads after it start at the next
\* unread source byte.
C18_RejectedSeekKeepsPosition ==
    /\ [][RejectedSeek
            => /\ pos' = pos
               /\ src' = src
               /\ (last'.op = "seek_current" => UNCHANGED <<r_buffer, r_unused>>)
               /\ (last'.op = "seek_end" => r_buffer' = 0 /\ r_unused' = 0)]_vars
    /\ []C18_ReadAfterRejectedEnd

C18_Witness ==
    /\ origin = [kind |-> "end", arg |-> 1, ok |-> FALSE]
    /\ reads = 1
    /\ LastIs("read_bits") /\ LastOk
    /\ last.arg = 3
    /\ pos = 2
    /\ r_unused = 5

\* a step that is a read_bits or read_bit that returns the end-of-stream
\* error, made with no unread byte left in the source
EofOnExhausted ==
    /\ budget' < budget
    /\ last'.op \in {"read_bits", "read_bit"}
    /\ last'.status = "eof"
    /\ ~SourceHasByte(pos)

\* C19: a read that returns EndOfStream and began with no unread source byte
\* leaves the cached byte and unused as they were, and every read_bits(m)
\* with m <= unused after it succeeds with the bits it would have returned
\* before the failed call.
C19_EofKeepsCache ==
    [][EofOnExhausted
        => /\ UNCHANGED <<r_buffer, r_unused, pos, src>>
           /\ \A m \in 0..r_unused :
                  \E before \in {read_bits(m, r_buffer, r_unused, pos)} :
                      /\ before.status = "ok"
                      /\ read_bits(m, r_buffer', r_unused', pos') = before
                      /\ before.ret = RefBits(src, 8 * pos - r_unused, m)]_vars

\* read_bits(3) on the last byte, then a read of more than the five cached
\* bits has failed at the end of the source
C19_Witness ==
    /\ last.op = "read_bits" /\ last.status = "eof"
    /\ pos = Len(src)
    /\ src = <<165>>
    /\ reads = 2 /\ failed = 1 /\ consumed = 3
    /\ r_unused = 5
    /\ r_buffer = 5

\* the indexes into MASKS of the call a step makes, taken in the state it is
\* made in
MaskIndexesOfCall ==
    CASE last'.op = "read_bits" /\ ReadBitsAssert(last'.arg)
             -> ReadMaskIndexes(last'.arg, r_unused, pos)
      [] last'.op = "read_bit" -> ReadMaskIndexes(1, r_unused, pos)
      [] last'.op = "write_bits" /\ WriteBitsAssert(last'.arg)
             -> WriteMaskIndexes(last'.arg, w_unused)
      [] last'.op = "write_bit" /\ WriteBitAssert(last'.arg)
             -> WriteMaskIndexes(1, w_unused)
      [] OTHER -> {}

\* C20: every index into the 8-entry MASKS table that read_bits and
\* write_bits use, for nbits in 0..=64 and from every reachable state, lies
\* in 0..=7; between operations the writer's free count is in 1..=8 and the
\* reader's unused count in 0..=8.
C20_MaskIndexInBounds ==
    /\ [][budget' < budget => \A i \in MaskIndexesOfCall : i \in 0..(Len(MASKS) - 1)]_vars
    /\ [](w_unused \in 1..8)
    /\ [](r_unused \in 0..8)

\* write_bits(64, _) after one bit: MASKS[7] fills the partial byte and
\* MASKS[1] takes the last bit
C20_Witness ==
    /\ budget = MaxCalls - 2
    /\ LastIs("write_bits") /\ LastOk
    /\ last.arg = 64
    /\ sinceFlush = 65
    /\ w_unused = 7
    /\ Len(sink) = 8

====
